---- MODULE Spec2Model ----
(***************************************************************************)
(* A model of ugdb's gui module (src/src/gui/mod.rs): the Console, the     *)
(* PseudoTerminal view, the source Pager adapter, the out-of-band record   *)
(* handler and the event router of struct Gui.                             *)
(*                                                                         *)
(* The widgets are records with the fields of the Rust structs.  Every     *)
(* method is an operator from the receiver (and its arguments) to the      *)
(* receiver after the call; the actions at the end apply them to the       *)
(* state.  A panic (expect / unwrap / unreachable!) sets `fault` and the   *)
(* program takes no further step.                                          *)
(***************************************************************************)
EXTENDS Integers, Sequences, FiniteSets, TLC

VARIABLES
    console,      \* Gui.console: Console {text_area, prompt_line}
    process_pty,  \* Gui.process_pty: PseudoTerminal {pty, display, input_buffer}
    file_viewer,  \* Gui.file_viewer: Pager {content, current_line}
    gdb,          \* the gdbmi::GDB session: the calls made on it so far, and whether
                  \* the debuggee is running
    fault,        \* "" while running, else the message of the panic that ended the program
    last,         \* history: the last operation, its arguments and its result
    pty_calls,    \* history: the byte chunks passed to add_pty_input, in order
    steps         \* history: the number of operations so far, where a behaviour is cut

vars == <<console, process_pty, file_viewer, gdb, fault, last, pty_calls, steps>>

----------------------------------------------------------------------------
(* Bounds of the model.                                                    *)

\* most bytes fed to the pty view in one behaviour
MaxFed == 4
\* most key events of one behaviour of the Console
MaxKeys == 3
\* most calls of Gui's methods in one behaviour of the whole Gui
MaxCalls == 2
\* lines of a page of the terminal window (the height draw() hands the widgets)
PageHeight == 2
\* most key events of one behaviour of the Console with the session behind it
MaxSession == 5

----------------------------------------------------------------------------
(* Helpers on sequences.                                                   *)

Min(a, b) == IF a < b THEN a ELSE b
Max(a, b) == IF a > b THEN a ELSE b

RECURSIVE Flatten(_)
Flatten(ss) == IF ss = <<>> THEN <<>> ELSE Head(ss) \o Flatten(Tail(ss))

IsPrefix(p, s) == Len(p) <= Len(s) /\ SubSeq(s, 1, Len(p)) = p

\* all sequences over S of length lo..hi
SeqsOf(S, lo, hi) == UNION {[1..n -> S] : n \in lo..hi}

----------------------------------------------------------------------------
(* String::from_utf8 (std), as called at mod.rs:155.  Bytes are 0..255, a  *)
(* String is the sequence of its code points.                              *)

IsCont(b) == b >= 128 /\ b <= 191

\* core::str UTF8_CHAR_WIDTH: the length the lead byte announces, 0 if it is no lead byte
Utf8CharWidth(b) ==
    IF b < 128 THEN 1
    ELSE IF b >= 194 /\ b <= 223 THEN 2
    ELSE IF b >= 224 /\ b <= 239 THEN 3
    ELSE IF b >= 240 /\ b <= 244 THEN 4
    ELSE 0

\* the range check core::str::run_utf8_validation makes on the byte after the lead byte
SecondByteOk(first, next) ==
    CASE Utf8CharWidth(first) = 2 -> IsCont(next)
      [] Utf8CharWidth(first) = 3 ->
            \/ first = 224 /\ next >= 160 /\ next <= 191
            \/ first >= 225 /\ first <= 236 /\ IsCont(next)
            \/ first = 237 /\ next >= 128 /\ next <= 159
            \/ first >= 238 /\ first <= 239 /\ IsCont(next)
      [] Utf8CharWidth(first) = 4 ->
            \/ first = 240 /\ next >= 144 /\ next <= 191
            \/ first >= 241 /\ first <= 243 /\ IsCont(next)
            \/ first = 244 /\ next >= 128 /\ next <= 143
      [] OTHER -> FALSE

\* whether the w bytes of s from index i are one well-formed encoded character
CharAt(s, i, w) ==
    /\ w >= 1
    /\ i + w - 1 <= Len(s)
    /\ w >= 2 => SecondByteOk(s[i], s[i + 1])
    /\ \A k \in 2..(w - 1) : IsCont(s[i + k])

\* the code point of the well-formed w-byte character of s at index i
CodePoint(s, i, w) ==
    CASE w = 1 -> s[i]
      [] w = 2 -> (s[i] - 192) * 64 + (s[i + 1] - 128)
      [] w = 3 -> (s[i] - 224) * 4096 + (s[i + 1] - 128) * 64 + (s[i + 2] - 128)
      [] OTHER -> (s[i] - 240) * 262144 + (s[i + 1] - 128) * 4096
                    + (s[i + 2] - 128) * 64 + (s[i + 3] - 128)

\* validate and decode s from index i on, acc is the text decoded so far
RECURSIVE FromUtf8From(_, _, _)
FromUtf8From(s, i, acc) ==
    IF i > Len(s) THEN [ok |-> TRUE, string |-> acc]
    ELSE LET w == Utf8CharWidth(s[i]) IN
         IF CharAt(s, i, w)
         THEN FromUtf8From(s, i + w, Append(acc, CodePoint(s, i, w)))
         ELSE [ok |-> FALSE, string |-> <<>>]

\* String::from_utf8(bytes): Ok(string) or Err
from_utf8(bytes) == FromUtf8From(bytes, 1, <<>>)

----------------------------------------------------------------------------
(* PseudoTerminal.                                                         *)

\* PseudoTerminal::new
NewPseudoTerminal == [pty |-> <<>>, display |-> <<>>, input_buffer |-> <<>>]

\* LogViewer as fmt::Write: write_str appends the text to the log
write_str(log, string) == log \o string

\* add_byte_input decoding the new bytes alone instead of the whole pending buffer
add_byte_input_DecodesNewBytes(self, bytes) ==
    LET buffer == self.input_buffer \o bytes
        decoded == from_utf8(bytes)
    IN  IF decoded.ok
        THEN [self EXCEPT !.display = write_str(self.display, decoded.string),
                          !.input_buffer = <<>>]
        ELSE [self EXCEPT !.input_buffer = buffer]

\* add_byte_input clearing the pending buffer whether or not the decoding succeeded
add_byte_input_ClearsAlways(self, bytes) ==
    LET buffer == self.input_buffer \o bytes
        decoded == from_utf8(buffer)
    IN  IF decoded.ok
        THEN [self EXCEPT !.display = write_str(self.display, decoded.string),
                          !.input_buffer = <<>>]
        ELSE [self EXCEPT !.input_buffer = <<>>]

\* add_byte_input putting the new bytes in the place of the pending ones
add_byte_input_ReplacesPending(self, bytes) ==
    LET buffer == self.input_buffer \o bytes
        decoded == from_utf8(buffer)
    IN  IF decoded.ok
        THEN [self EXCEPT !.display = write_str(self.display, decoded.string),
                          !.input_buffer = <<>>]
        ELSE [self EXCEPT !.input_buffer = bytes]

\* PseudoTerminal::add_byte_input
add_byte_input(self, bytes) ==
    LET buffer == self.input_buffer \o bytes
        decoded == from_utf8(buffer)
    IN  IF decoded.ok
        THEN [self EXCEPT !.display = write_str(self.display, decoded.string),
                          !.input_buffer = <<>>]
        ELSE [self EXCEPT !.input_buffer = buffer]

----------------------------------------------------------------------------
(* The file system FileLineStorage::new reads: the files that open, with   *)
(* their line counts; every other path fails with an io::Error.            *)

Paths == {"/a.c", "/b.c", "/missing"}

FileLines == [p \in {"/a.c", "/b.c"} |-> IF p = "/a.c" THEN 11 ELSE 2]

\* FileLineStorage::new(path): Ok(storage) or Err(io::Error)
NewFileLineStorage(path) ==
    IF path \in DOMAIN FileLines
    THEN [ok |-> TRUE, storage |-> [path |-> path, lines |-> FileLines[path]]]
    ELSE [ok |-> FALSE, storage |-> [path |-> path, lines |-> 0]]

----------------------------------------------------------------------------
(* Pager (unsegen), as Gui uses it: content is None (<<>>) or Some of the  *)
(* loaded storage (<<storage>>).                                           *)

\* Pager::new
NewPager == [content |-> <<>>, current_line |-> 0]

\* Pager::load: replaces the content; the viewport stays on a line the new content has
PagerLoad(pager, storage) ==
    [content |-> <<storage>>,
     current_line |-> Min(pager.current_line, Max(storage.lines, 1) - 1)]

\* go_to_line moving the viewport before it finds the line missing
go_to_line_MovesFirst(pager, line) ==
    [ok |-> pager.content # <<>> /\ line < pager.content[1].lines,
     pager |-> [pager EXCEPT !.current_line = line]]

\* Pager::go_to_line: Ok and the viewport at line if the content has that line, else Err
go_to_line(pager, line) ==
    IF pager.content # <<>> /\ line < pager.content[1].lines
    THEN [ok |-> TRUE, pager |-> [pager EXCEPT !.current_line = line]]
    ELSE [ok |-> FALSE, pager |-> pager]

\* Scrollable for Pager: one page forwards or backwards, within the content
PagerScroll(pager, forwards) ==
    IF pager.content = <<>> THEN pager
    ELSE IF forwards
    THEN [pager EXCEPT !.current_line =
              Min(pager.current_line + PageHeight, Max(pager.content[1].lines, 1) - 1)]
    ELSE [pager EXCEPT !.current_line = Max(pager.current_line - PageHeight, 0)]

\* Gui::load_in_file_viewer: Ok(()) with the file loaded, or the io::Error of the open
load_in_file_viewer(pager, path) ==
    LET file_storage == NewFileLineStorage(path)
    IN  IF file_storage.ok
        THEN [ok |-> TRUE, pager |-> PagerLoad(pager, file_storage.storage)]
        ELSE [ok |-> FALSE, pager |-> pager]

\* need_to_reload without the comparison of the paths
need_to_reload_Always(pager, path) == TRUE

\* the local need_to_reload of Gui::show_in_file_viewer
need_to_reload(pager, path) ==
    IF pager.content # <<>> THEN pager.content[1].path # path ELSE TRUE

\* show_in_file_viewer without the try! around the load: it goes to the line of
\* whatever is loaded
show_in_file_viewer_IgnoresLoadError(pager, path, line) ==
    LET reload == need_to_reload(pager, path)
        loading == load_in_file_viewer(pager, path)
        shown == IF reload /\ loading.ok THEN loading.pager ELSE pager
        moved == go_to_line(shown, line)
    IN  [pager |-> moved.pager,
         ret |-> IF moved.ok THEN "Ok" ELSE "LineDoesNotExist",
         loaded |-> reload /\ loading.ok]

\* Gui::show_in_file_viewer: the Pager after the call, the Result returned, and
\* whether Pager::load was called
show_in_file_viewer(pager, path, line) ==
    LET reload == need_to_reload(pager, path)
        loading == load_in_file_viewer(pager, path)
    IN  IF reload /\ ~loading.ok
        THEN [pager |-> pager, ret |-> "CouldNotOpenFile", loaded |-> FALSE]
        ELSE LET shown == IF reload THEN loading.pager ELSE pager
                 moved == go_to_line(shown, line)
             IN  [pager |-> moved.pager,
                  ret |-> IF moved.ok THEN "Ok" ELSE "LineDoesNotExist",
                  loaded |-> reload]

----------------------------------------------------------------------------
(* Input events (unsegen::Input): a key event carries the key and, for     *)
(* Key::Char and Key::Ctrl, its character; Mouse is an event that is no    *)
(* key.                                                                    *)

KeyEvent(key, c) == [event |-> "Key", key |-> key, c |-> c]
Enter == KeyEvent("Char", "\n")
CtrlC == KeyEvent("Ctrl", "c")
MouseEvent == [event |-> "Mouse", key |-> "", c |-> ""]

IsKey(input, key) == input.event = "Key" /\ input.key = key /\ input.c = ""

----------------------------------------------------------------------------
(* PromptLine (unsegen): the edited line with its cursor, and the history  *)
(* of finished lines that Up and Down walk through.                        *)

\* PromptLine::with_prompt
NewPromptLine == [line |-> <<>>, cursor |-> 0, history |-> <<>>, scroll |-> 0]

\* PromptLine::finish_line: the line goes to the history, the prompt is reset, and
\* the finished line is returned
finish_line(prompt) ==
    [line |-> prompt.line,
     prompt |-> [line |-> <<>>, cursor |-> 0,
                 history |-> IF prompt.history # <<>>
                                /\ prompt.history[Len(prompt.history)] = prompt.line
                             THEN prompt.history
                             ELSE Append(prompt.history, prompt.line),
                 scroll |-> 0]]

\* the history entry `scroll` steps back from the newest
HistoryLine(prompt, scroll) ==
    IF scroll = 0 THEN <<>> ELSE prompt.history[Len(prompt.history) + 1 - scroll]

\* the prompt showing the history entry `scroll` steps back
ScrollTo(prompt, scroll) ==
    [prompt EXCEPT !.scroll = scroll,
                   !.line = HistoryLine(prompt, scroll),
                   !.cursor = Len(HistoryLine(prompt, scroll))]

\* Writable for PromptLine: the character goes in at the cursor
PromptWrite(prompt, c) ==
    [prompt EXCEPT !.line = SubSeq(prompt.line, 1, prompt.cursor) \o <<c>>
                              \o SubSeq(prompt.line, prompt.cursor + 1, Len(prompt.line)),
                   !.cursor = prompt.cursor + 1]

\* EditBehavior::input with the bindings of Console::event (mod.rs:97-104): the
\* prompt after the event, and whether the behaviour consumed it
EditBehavior(prompt, input) ==
    LET n == Len(prompt.line)
        cur == prompt.cursor
        done(p) == [consumed |-> TRUE, prompt |-> p]
    IN  CASE IsKey(input, "Left") ->
                done([prompt EXCEPT !.cursor = Max(cur - 1, 0)])
          [] IsKey(input, "Right") ->
                done([prompt EXCEPT !.cursor = Min(cur + 1, n)])
          [] IsKey(input, "Up") ->
                done(IF prompt.scroll < Len(prompt.history)
                     THEN ScrollTo(prompt, prompt.scroll + 1) ELSE prompt)
          [] IsKey(input, "Down") ->
                done(IF prompt.scroll > 0
                     THEN ScrollTo(prompt, prompt.scroll - 1) ELSE prompt)
          [] IsKey(input, "Delete") ->
                done(IF cur < n
                     THEN [prompt EXCEPT !.line = SubSeq(prompt.line, 1, cur)
                                                    \o SubSeq(prompt.line, cur + 2, n)]
                     ELSE prompt)
          [] IsKey(input, "Backspace") ->
                done(IF cur > 0
                     THEN [prompt EXCEPT !.line = SubSeq(prompt.line, 1, cur - 1)
                                                    \o SubSeq(prompt.line, cur + 1, n),
                                         !.cursor = cur - 1]
                     ELSE prompt)
          [] input = CtrlC ->
                done([prompt EXCEPT !.line = <<>>, !.cursor = 0])
          [] input.event = "Key" /\ input.key = "Char" ->
                done(PromptWrite(prompt, input.c))
          [] OTHER -> [consumed |-> FALSE, prompt |-> prompt]

----------------------------------------------------------------------------
(* LogViewer (unsegen) of the Console: the chunks written to it, in order, *)
(* and how far back the view is scrolled.                                  *)

NewLogViewer == [log |-> <<>>, scroll |-> 0]

\* what a format! of the module produces: the literal head of the format string,
\* then the text, the Debug-printed tags and the Debug-printed payload it interpolates
Text(head, text, tags, payload) ==
    [head |-> head, text |-> text, tags |-> tags, payload |-> payload]

\* write!(text_area, "{}", data): data as it is
WriteRaw(text_area, data) ==
    [text_area EXCEPT !.log =
        Append(@, [pre |-> "", body |-> Text("", data, <<>>, <<>>), post |-> ""])]

\* ScrollBehavior::input with forwards_on(PageDown) and backwards_on(PageUp), on a LogViewer
LogScrollBehavior(text_area, input) ==
    CASE IsKey(input, "PageDown") ->
            [text_area EXCEPT !.scroll = Max(@ - PageHeight, 0)]
      [] IsKey(input, "PageUp") ->
            [text_area EXCEPT !.scroll = Min(@ + PageHeight, Len(text_area.log))]
      [] OTHER -> text_area

----------------------------------------------------------------------------
(* Console.                                                                *)

\* Console::new
NewConsole == [text_area |-> NewLogViewer, prompt_line |-> NewPromptLine]

\* Console::add_message: write!(self.text_area, " -=- {}\n", msg)
add_message(self, msg) ==
    [self EXCEPT !.text_area.log =
        Append(@, [pre |-> " -=- ", body |-> msg, post |-> "\n"])]

\* the line that interrupts the debugger instead of being run (mod.rs:67)
StopToken == <<"!", "s", "t", "o", "p">>

\* the gdb session after gdb.interrupt_execution() and after gdb.execute(..)
GdbInterrupt(session) == [session EXCEPT !.interrupts = @ + 1]
GdbExecute(session) == [session EXCEPT !.executes = @ + 1]

\* what gdb.execute can return, and the message Console::event logs for it
ExecuteResults == {"Ok", "Quit", "Busy"}
ResultMessage(result) ==
    CASE result = "Ok" -> Text("Result: ", <<>>, <<"ResultRecord">>, <<>>)
      [] result = "Quit" -> Text("quit", <<>>, <<>>, <<>>)
      [] OTHER -> Text("GDB is running!", <<>>, <<>>, <<>>)

\* the submission taking every line that begins with the token for the token
ConsoleSubmit_TokenPrefix(self, session, result, interrupted) ==
    LET finished == finish_line(self.prompt_line)
        line == finished.line
        reset == [self EXCEPT !.prompt_line = finished.prompt]
    IN  IF IsPrefix(StopToken, line)
        THEN [console |-> reset, gdb |-> GdbInterrupt(session),
              fault |-> IF interrupted THEN "" ELSE "interrupted gdb"]
        ELSE [console |-> add_message(
                            add_message(reset, Text("(gdb) ", line, <<>>, <<>>)),
                            ResultMessage(result)),
              gdb |-> GdbExecute(session),
              fault |-> ""]

\* the submission sending the interrupt as a command through gdb.execute, the way
\* the comment at mod.rs:70-72 tried
ConsoleSubmit_StopThroughExecute(self, session, result, interrupted) ==
    LET finished == finish_line(self.prompt_line)
        line == finished.line
        reset == [self EXCEPT !.prompt_line = finished.prompt]
    IN  IF line = StopToken
        THEN [console |-> reset, gdb |-> GdbExecute(session),
              fault |-> IF result = "Ok" THEN "" ELSE "Interrupt "]
        ELSE [console |-> add_message(
                            add_message(reset, Text("(gdb) ", line, <<>>, <<>>)),
                            ResultMessage(result)),
              gdb |-> GdbExecute(session),
              fault |-> ""]

\* Console::event on Key::Char('\n') (mod.rs:64-86).  result is what gdb.execute
\* returns if called, interrupted whether gdb.interrupt_execution returns Ok.
ConsoleSubmit(self, session, result, interrupted) ==
    LET finished == finish_line(self.prompt_line)
        line == finished.line
        reset == [self EXCEPT !.prompt_line = finished.prompt]
    IN  IF line = StopToken
        THEN [console |-> reset, gdb |-> GdbInterrupt(session),
              fault |-> IF interrupted THEN "" ELSE "interrupted gdb"]
        ELSE [console |-> add_message(
                            add_message(reset, Text("(gdb) ", line, <<>>, <<>>)),
                            ResultMessage(result)),
              gdb |-> GdbExecute(session),
              fault |-> ""]

\* the interrupt closure not looking at the prompt
ConsoleEdit_InterruptsAlways(self, session, input, interrupted) ==
    IF input = CtrlC
    THEN [console |-> self, gdb |-> GdbInterrupt(session),
          fault |-> IF interrupted THEN "" ELSE "interrupted gdb"]
    ELSE LET edited == EditBehavior(self.prompt_line, input)
         IN  [console |->
                  IF edited.consumed
                  THEN [self EXCEPT !.prompt_line = edited.prompt]
                  ELSE [self EXCEPT !.text_area = LogScrollBehavior(@, input)],
              gdb |-> session,
              fault |-> ""]

\* the chain reaching the ScrollBehavior of the log on an empty prompt only
ConsoleEdit_ScrollsOnEmptyPrompt(self, session, input, interrupted) ==
    IF input = CtrlC /\ self.prompt_line.line = <<>>
    THEN [console |-> self, gdb |-> GdbInterrupt(session),
          fault |-> IF interrupted THEN "" ELSE "interrupted gdb"]
    ELSE LET edited == EditBehavior(self.prompt_line, input)
         IN  [console |->
                  IF edited.consumed
                  THEN [self EXCEPT !.prompt_line = edited.prompt]
                  ELSE IF self.prompt_line.line = <<>>
                  THEN [self EXCEPT !.text_area = LogScrollBehavior(@, input)]
                  ELSE self,
              gdb |-> session,
              fault |-> ""]

\* the interrupt closure sending the interrupt as a command through gdb.execute
ConsoleEdit_InterruptThroughExecute(self, session, input, interrupted) ==
    IF input = CtrlC /\ self.prompt_line.line = <<>>
    THEN [console |-> self, gdb |-> GdbExecute(session),
          fault |-> IF interrupted THEN "" ELSE "Interrupt "]
    ELSE LET edited == EditBehavior(self.prompt_line, input)
         IN  [console |->
                  IF edited.consumed
                  THEN [self EXCEPT !.prompt_line = edited.prompt]
                  ELSE [self EXCEPT !.text_area = LogScrollBehavior(@, input)],
              gdb |-> session,
              fault |-> ""]

\* Console::event on any other input (mod.rs:88-110): the chain of the interrupt
\* closure, the EditBehavior of the prompt and the ScrollBehavior of the log
ConsoleEdit(self, session, input, interrupted) ==
    IF input = CtrlC /\ self.prompt_line.line = <<>>
    THEN [console |-> self, gdb |-> GdbInterrupt(session),
          fault |-> IF interrupted THEN "" ELSE "interrupted gdb"]
    ELSE LET edited == EditBehavior(self.prompt_line, input)
         IN  [console |->
                  IF edited.consumed
                  THEN [self EXCEPT !.prompt_line = edited.prompt]
                  ELSE [self EXCEPT !.text_area = LogScrollBehavior(@, input)],
              gdb |-> session,
              fault |-> ""]

\* Console::event
ConsoleEvent(self, session, input, result, interrupted) ==
    IF input = Enter
    THEN ConsoleSubmit(self, session, result, interrupted)
    ELSE ConsoleEdit(self, session, input, interrupted)

----------------------------------------------------------------------------
(* gdbmi values.  A NamedValues maps names to values; a field is None      *)
(* (<<>>) or Some value (<<v>>).  The results of a record carry `frame`    *)
(* and `reason`, a frame carries `fullname`, `line` and `func`.            *)

Const(str) == [kind |-> "Const", str |-> str]
NotConst(str) == [kind |-> "Tuple", str |-> str]
Frame(fullname, line, func) ==
    [kind |-> "Tuple", fullname |-> fullname, line |-> line, func |-> func]
ConstFrame == [kind |-> "Const", fullname |-> <<>>, line |-> <<>>, func |-> <<>>]
Results(frame, reason) == [frame |-> frame, reason |-> reason]

IsDigit(c) == c \in {"0", "1", "2", "3", "4", "5", "6", "7", "8", "9"}
DigitValue(c) ==
    CASE c = "0" -> 0 [] c = "1" -> 1 [] c = "2" -> 2 [] c = "3" -> 3 [] c = "4" -> 4
      [] c = "5" -> 5 [] c = "6" -> 6 [] c = "7" -> 7 [] c = "8" -> 8 [] OTHER -> 9

RECURSIVE DigitsValue(_, _)
DigitsValue(digits, acc) ==
    IF digits = <<>> THEN acc
    ELSE DigitsValue(Tail(digits), acc * 10 + DigitValue(Head(digits)))

\* str::parse::<usize>: an optional '+', then one or more decimal digits
ParseUsize(str) ==
    LET digits == IF str # <<>> /\ Head(str) = "+" THEN Tail(str) ELSE str
    IN  IF digits # <<>> /\ \A i \in 1..Len(digits) : IsDigit(digits[i])
        THEN [ok |-> TRUE, value |-> DigitsValue(digits, 0)]
        ELSE [ok |-> FALSE, value |-> 0]

\* usize::MAX, which 0 - 1 wraps to in a build without overflow checks.  It stands
\* for 2^64 - 1 (the model checker's integers have 32 bits): no file has that many lines.
UsizeMax == 2147483647

----------------------------------------------------------------------------
(* Gui.  self is the record of the widgets, [console, process_pty,         *)
(* file_viewer]; a method returns the Gui after the call and the message   *)
(* of the panic that ended it ("" if none did).                            *)

\* Gui::new
NewGui == [console |-> NewConsole, process_pty |-> NewPseudoTerminal,
           file_viewer |-> NewPager]

Returned(self) == [gui |-> self, fault |-> ""]
Panicked(self, message) == [gui |-> self, fault |-> message]

\* the (Exec, Stopped) arm showing the line number as it is, without the - 1
HandleStopped_NoOffset(self, results, overflow_checks) ==
    LET logged == [self EXCEPT !.console =
                      add_message(@, Text("stopped: ", <<>>, <<>>, <<results>>))]
    IN  IF results.frame = <<>> THEN Panicked(logged, "frame present")
        ELSE LET frame == results.frame[1] IN
        IF frame.kind # "Tuple" THEN Panicked(logged, "unwrap_tuple_or_named_value_list")
        ELSE IF frame.fullname = <<>> THEN Panicked(logged, "fullname present")
        ELSE IF frame.fullname[1].kind # "Const" THEN Panicked(logged, "unwrap_const")
        ELSE IF frame.line = <<>> THEN Panicked(logged, "line present")
        ELSE IF frame.line[1].kind # "Const" THEN Panicked(logged, "unwrap_const")
        ELSE LET path == frame.fullname[1].str
                 parsed == ParseUsize(frame.line[1].str)
             IN
        IF ~parsed.ok THEN Panicked(logged, "parse usize")
        ELSE LET shown == show_in_file_viewer(logged.file_viewer, path, parsed.value)
                 after == [logged EXCEPT !.file_viewer = shown.pager]
             IN  IF shown.ret = "Ok" THEN Returned(after)
                 ELSE Panicked(after, "gdb surely would never lie to us!")

\* the (Exec, Stopped) arm dropping the Result of show_in_file_viewer
HandleStopped_IgnoresShowError(self, results, overflow_checks) ==
    LET logged == [self EXCEPT !.console =
                      add_message(@, Text("stopped: ", <<>>, <<>>, <<results>>))]
    IN  IF results.frame = <<>> THEN Panicked(logged, "frame present")
        ELSE LET frame == results.frame[1] IN
        IF frame.kind # "Tuple" THEN Panicked(logged, "unwrap_tuple_or_named_value_list")
        ELSE IF frame.fullname = <<>> THEN Panicked(logged, "fullname present")
        ELSE IF frame.fullname[1].kind # "Const" THEN Panicked(logged, "unwrap_const")
        ELSE IF frame.line = <<>> THEN Panicked(logged, "line present")
        ELSE IF frame.line[1].kind # "Const" THEN Panicked(logged, "unwrap_const")
        ELSE LET path == frame.fullname[1].str
                 parsed == ParseUsize(frame.line[1].str)
             IN
        IF ~parsed.ok THEN Panicked(logged, "parse usize")
        ELSE IF parsed.value = 0 /\ overflow_checks
        THEN Panicked(logged, "attempt to subtract with overflow")
        ELSE LET line == IF parsed.value = 0 THEN UsizeMax ELSE parsed.value - 1
                 shown == show_in_file_viewer(logged.file_viewer, path, line)
             IN  Returned([logged EXCEPT !.file_viewer = shown.pager])

\* the (Exec, Stopped) arm of Gui::handle_async_record (mod.rs:238-244).
\* overflow_checks: whether the build panics on integer overflow (debug) or wraps.
HandleStopped(self, results, overflow_checks) ==
    LET logged == [self EXCEPT !.console =
                      add_message(@, Text("stopped: ", <<>>, <<>>, <<results>>))]
    IN  IF results.frame = <<>> THEN Panicked(logged, "frame present")
        ELSE LET frame == results.frame[1] IN
        IF frame.kind # "Tuple" THEN Panicked(logged, "unwrap_tuple_or_named_value_list")
        ELSE IF frame.fullname = <<>> THEN Panicked(logged, "fullname present")
        ELSE IF frame.fullname[1].kind # "Const" THEN Panicked(logged, "unwrap_const")
        ELSE IF frame.line = <<>> THEN Panicked(logged, "line present")
        ELSE IF frame.line[1].kind # "Const" THEN Panicked(logged, "unwrap_const")
        ELSE LET path == frame.fullname[1].str
                 parsed == ParseUsize(frame.line[1].str)
             IN
        IF ~parsed.ok THEN Panicked(logged, "parse usize")
        ELSE IF parsed.value = 0 /\ overflow_checks
        THEN Panicked(logged, "attempt to subtract with overflow")
        ELSE LET line == IF parsed.value = 0 THEN UsizeMax ELSE parsed.value - 1
                 shown == show_in_file_viewer(logged.file_viewer, path, line)
                 after == [logged EXCEPT !.file_viewer = shown.pager]
             IN  IF shown.ret = "Ok" THEN Returned(after)
                 ELSE Panicked(after, "gdb surely would never lie to us!")

\* handle_async_record matching on the class alone
handle_async_record_ClassOnly(self, kind, class, results, overflow_checks) ==
    IF class = "Stopped"
    THEN HandleStopped(self, results, overflow_checks)
    ELSE Returned([self EXCEPT !.console =
             add_message(@, Text("unhandled async_record: ", <<>>, <<kind, class>>,
                                 <<results>>))])

\* Gui::handle_async_record
handle_async_record(self, kind, class, results, overflow_checks) ==
    IF kind = "Exec" /\ class = "Stopped"
    THEN HandleStopped(self, results, overflow_checks)
    ELSE Returned([self EXCEPT !.console =
             add_message(@, Text("unhandled async_record: ", <<>>, <<kind, class>>,
                                 <<results>>))])

\* an OutOfBandRecord
StreamRecord(data) ==
    [record |-> "StreamRecord", data |-> data, kind |-> "", class |-> "",
     results |-> Results(<<>>, <<>>)]
AsyncRecord(kind, class, results) ==
    [record |-> "AsyncRecord", data |-> <<>>, kind |-> kind, class |-> class,
     results |-> results]

\* the StreamRecord arm writing its data as a message of the Console
add_out_of_band_record_StreamAsMessage(self, record, overflow_checks) ==
    IF record.record = "StreamRecord"
    THEN Returned([self EXCEPT !.console =
             add_message(@, Text("", record.data, <<>>, <<>>))])
    ELSE handle_async_record(self, record.kind, record.class, record.results,
                             overflow_checks)

\* Gui::add_out_of_band_record
add_out_of_band_record(self, record, overflow_checks) ==
    IF record.record = "StreamRecord"
    THEN Returned([self EXCEPT !.console.text_area = WriteRaw(@, record.data)])
    ELSE handle_async_record(self, record.kind, record.class, record.results,
                             overflow_checks)

\* Gui::add_pty_input
add_pty_input(self, input) ==
    [self EXCEPT !.process_pty = add_byte_input(@, input)]

\* Gui::add_debug_message
add_debug_message(self, msg) ==
    [self EXCEPT !.console = add_message(@, Text("Debug: ", msg, <<>>, <<>>))]

\* Writable for PseudoTerminal: write!(self.pty, "{}", c)
PtyWrite(pty, c) == [pty EXCEPT !.pty = Append(@, c)]

\* WriteBehavior::input on the PseudoTerminal: a Key::Char is written, anything else passes
WriteBehavior(pty, input) ==
    IF input.event = "Key" /\ input.key = "Char"
    THEN [consumed |-> TRUE, pty |-> PtyWrite(pty, input.c)]
    ELSE [consumed |-> FALSE, pty |-> pty]

\* the scroll behaviour of the Pager going forwards on every key but PageUp
PagerScrollBehavior_ForwardsOnAnyKey(pager, input) ==
    IF IsKey(input, "PageUp") THEN PagerScroll(pager, FALSE) ELSE PagerScroll(pager, TRUE)

\* ScrollBehavior::input with forwards_on(PageDown) and backwards_on(PageUp), on the Pager
PagerScrollBehavior(pager, input) ==
    CASE IsKey(input, "PageDown") -> PagerScroll(pager, TRUE)
      [] IsKey(input, "PageUp") -> PagerScroll(pager, FALSE)
      [] OTHER -> pager

\* an InputEvent (input::InputEvent)
InputEvent(target, input) == [target |-> target, input |-> input]
Quit == InputEvent("Quit", MouseEvent)

\* Gui::event returning from the Quit arm as if nothing had arrived
GuiEvent_QuitIgnored(self, session, event, result, interrupted, written) ==
    CASE event.target = "ConsoleEvent" ->
            LET c == ConsoleEvent(self.console, session, event.input, result, interrupted)
            IN  [gui |-> [self EXCEPT !.console = c.console], gdb |-> c.gdb,
                 fault |-> c.fault]
      [] event.target = "PseudoTerminalEvent" ->
            LET w == WriteBehavior(self.process_pty, event.input)
            IN  IF w.consumed /\ ~written
                THEN [gui |-> self, gdb |-> session, fault |-> "Write key to terminal"]
                ELSE [gui |-> [self EXCEPT !.process_pty = w.pty], gdb |-> session,
                      fault |-> ""]
      [] event.target = "SourcePagerEvent" ->
            [gui |-> [self EXCEPT !.file_viewer = PagerScrollBehavior(@, event.input)],
             gdb |-> session, fault |-> ""]
      [] OTHER ->
            [gui |-> self, gdb |-> session, fault |-> ""]

\* Gui::event.  result and interrupted are what the gdb session answers, written
\* whether the write to the pty succeeds.  Returns the Gui, the session and the panic.
GuiEvent(self, session, event, result, interrupted, written) ==
    CASE event.target = "ConsoleEvent" ->
            LET c == ConsoleEvent(self.console, session, event.input, result, interrupted)
            IN  [gui |-> [self EXCEPT !.console = c.console], gdb |-> c.gdb,
                 fault |-> c.fault]
      [] event.target = "PseudoTerminalEvent" ->
            LET w == WriteBehavior(self.process_pty, event.input)
            IN  IF w.consumed /\ ~written
                THEN [gui |-> self, gdb |-> session, fault |-> "Write key to terminal"]
                ELSE [gui |-> [self EXCEPT !.process_pty = w.pty], gdb |-> session,
                      fault |-> ""]
      [] event.target = "SourcePagerEvent" ->
            [gui |-> [self EXCEPT !.file_viewer = PagerScrollBehavior(@, event.input)],
             gdb |-> session, fault |-> ""]
      [] OTHER ->
            [gui |-> self, gdb |-> session,
             fault |-> "quit should have been caught in main"]

----------------------------------------------------------------------------
(* The state machine.  Each action is one call of a public method of Gui   *)
(* by the main loop, which is single threaded: a call runs to its end      *)
(* before the next one starts, and after a panic there is no next one.     *)

Self == [console |-> console, process_pty |-> process_pty, file_viewer |-> file_viewer]

NoInput == [event |-> "", key |-> "", c |-> ""]

\* the record of an operation: op, and what the operation adds with EXCEPT
Last(op) ==
    [op |-> op, ret |-> "", path |-> "", line |-> 0, loaded |-> FALSE,
     target |-> "", input |-> NoInput, text |-> <<>>, kind |-> "", class |-> "",
     results |-> Results(<<>>, <<>>)]

Becomes(gui, session, panic, record) ==
    /\ console' = gui.console
    /\ process_pty' = gui.process_pty
    /\ file_viewer' = gui.file_viewer
    /\ gdb' = session
    /\ fault' = panic
    /\ last' = record

\* Gui::add_pty_input(input)
AddPtyInput(input) ==
    /\ fault = ""
    /\ Becomes(add_pty_input(Self, input), gdb, "",
               [Last("add_pty_input") EXCEPT
                   !.ret = IF from_utf8(process_pty.input_buffer \o input).ok
                           THEN "Ok" ELSE "Err"])
    /\ pty_calls' = Append(pty_calls, input)

\* Gui::show_in_file_viewer(path, line)
ShowInFileViewer(path, line) ==
    /\ fault = ""
    /\ LET shown == show_in_file_viewer(file_viewer, path, line)
       IN  Becomes([Self EXCEPT !.file_viewer = shown.pager], gdb, "",
                   [Last("show_in_file_viewer") EXCEPT
                       !.ret = shown.ret, !.path = path, !.line = line,
                       !.loaded = shown.loaded])
    /\ UNCHANGED pty_calls

\* Gui::event(event, gdb)
Event(event, result, interrupted, written) ==
    /\ fault = ""
    /\ LET after == GuiEvent(Self, gdb, event, result, interrupted, written)
       IN  Becomes(after.gui, after.gdb, after.fault,
                   [Last("event") EXCEPT
                       !.target = event.target, !.input = event.input,
                       !.text = console.prompt_line.line])
    /\ UNCHANGED pty_calls

\* Gui::add_out_of_band_record(record)
AddOutOfBandRecord(record, overflow_checks) ==
    /\ fault = ""
    /\ LET after == add_out_of_band_record(Self, record, overflow_checks)
       IN  Becomes(after.gui, gdb, after.fault,
                   [Last("add_out_of_band_record") EXCEPT
                       !.kind = record.kind, !.class = record.class,
                       !.results = record.results, !.ret = record.record,
                       !.text = record.data])
    /\ UNCHANGED pty_calls

\* Gui::add_debug_message(msg)
AddDebugMessage(msg) ==
    /\ fault = ""
    /\ Becomes(add_debug_message(Self, msg), gdb, "", Last("add_debug_message"))
    /\ UNCHANGED pty_calls

\* the state Gui::new leaves, with `line` typed into the prompt
Constructed(line) ==
    /\ console = [NewConsole EXCEPT !.prompt_line.line = line,
                                    !.prompt_line.cursor = Len(line)]
    /\ process_pty = NewPseudoTerminal
    /\ file_viewer = NewPager
    /\ gdb = [interrupts |-> 0, executes |-> 0, running |-> FALSE]
    /\ fault = ""
    /\ last = Last("new")
    /\ pty_calls = <<>>
    /\ steps = 0

\* one more operation of a behaviour that is cut after max of them
Counted(max) == steps < max /\ steps' = steps + 1

----------------------------------------------------------------------------
(* The pty view alone: every way of feeding up to MaxFed bytes in chunks.  *)

\* 'A', a continuation byte, the lead bytes of a 2, 3 and 4 byte character, and a
\* byte no encoding contains
PtyBytes == {65, 169, 195, 226, 240, 255}

InitPty == Constructed(<<>>)

\* the number of bytes fed so far
Fed == Len(Flatten(pty_calls))

NextPty ==
    \E input \in SeqsOf(PtyBytes, 1, MaxFed - Fed) :
        AddPtyInput(input) /\ UNCHANGED steps

SpecPty == InitPty /\ [][NextPty]_vars

----------------------------------------------------------------------------
(* The pty view in both directions: chunks of up to MaxFed bytes from the  *)
(* debuggee, between keys written to it.                                   *)

\* 'A', the two halves of U+00E9, of U+20AC and of U+1F4A9, and a byte no encoding
\* contains
PtyChunks ==
    {<<65>>, <<195>>, <<169>>, <<226, 130>>, <<172>>, <<240, 159>>, <<146, 169>>, <<255>>}

FeedNext ==
    \E input \in PtyChunks :
        Fed + Len(input) <= MaxFed /\ AddPtyInput(input) /\ UNCHANGED steps

WriteNext ==
    \E c \in {"x", "\n"}, written \in BOOLEAN :
        Event(InputEvent("PseudoTerminalEvent", KeyEvent("Char", c)), "Ok", TRUE, written)
            /\ Counted(MaxCalls)

NextPtyIO == FeedNext \/ WriteNext

SpecPtyIO == InitPty /\ [][NextPtyIO]_vars

----------------------------------------------------------------------------
(* The Pager adapter alone: show_in_file_viewer and the scroll keys.       *)

ShowLines == {0, 1, 2, 10, 11}

PagerKeys == {KeyEvent("PageUp", ""), KeyEvent("PageDown", ""), KeyEvent("Char", "x")}

InitPager == Constructed(<<>>)

ShowNext ==
    \E path \in Paths, line \in ShowLines :
        ShowInFileViewer(path, line) /\ UNCHANGED steps

ScrollNext ==
    \E input \in PagerKeys :
        Event(InputEvent("SourcePagerEvent", input), "Ok", TRUE, TRUE) /\ UNCHANGED steps

NextPager == ShowNext \/ ScrollNext

SpecPager == InitPager /\ [][NextPager]_vars

----------------------------------------------------------------------------
(* The Console alone: up to MaxKeys events on a prompt that holds one of  *)
(* the SeedLines (each is a line the Char keys type).                      *)

SeedLines == {<<>>, <<"!", "s", "t", "o">>, StopToken}

ConsoleChars == {"p", "!"}

ConsoleInputs ==
    {Enter, CtrlC, MouseEvent}
    \cup {KeyEvent("Char", c) : c \in ConsoleChars}
    \cup {KeyEvent(key, "") : key \in {"Left", "Right", "Up", "Down", "Delete",
                                       "Backspace", "PageUp", "PageDown", "Esc"}}

\* the answers of the session that the event can ask for
ResultsFor(event) ==
    IF event.target = "ConsoleEvent" /\ event.input = Enter THEN ExecuteResults ELSE {"Ok"}
InterruptsFor(event) ==
    IF event.target = "ConsoleEvent" /\ event.input \in {Enter, CtrlC}
    THEN BOOLEAN ELSE {TRUE}
WritesFor(event) ==
    IF event.target = "PseudoTerminalEvent" THEN BOOLEAN ELSE {TRUE}

EventNext(events, max) ==
    \E event \in events :
        \E result \in ResultsFor(event), interrupted \in InterruptsFor(event),
           written \in WritesFor(event) :
            Event(event, result, interrupted, written) /\ Counted(max)

InitConsole == \E line \in SeedLines : Constructed(line)

NextConsole ==
    EventNext({InputEvent("ConsoleEvent", input) : input \in ConsoleInputs}, MaxKeys)

SpecConsole == InitConsole /\ [][NextConsole]_vars

----------------------------------------------------------------------------
(* The Console with the session behind it.  The session is busy while the  *)
(* debuggee runs: execute then answers Busy and starts nothing, and a      *)
(* command it accepts may leave the debuggee running until it stops.       *)

\* what execute can answer in the state of the session
SessionAnswers(session) == IF session.running THEN {"Busy"} ELSE {"Ok", "Quit"}

SessionInputs == {Enter, CtrlC, KeyEvent("Up", ""), KeyEvent("Char", "p")}

\* the last operation was a submission whose command the session accepted
Accepted ==
    /\ last.op = "event" /\ last.input = Enter /\ last.text # StopToken
    /\ console.text_area.log # <<>>
    /\ console.text_area.log[Len(console.text_area.log)].body = ResultMessage("Ok")

\* a step of the session alone
SessionBecomes(running) ==
    /\ fault = ""
    /\ gdb' = [gdb EXCEPT !.running = running]
    /\ last' = [Last("session") EXCEPT !.ret = IF running THEN "running" ELSE "stopped"]
    /\ UNCHANGED <<console, process_pty, file_viewer, fault, pty_calls, steps>>

\* the command just accepted resumes the debuggee
SessionRuns == Accepted /\ ~gdb.running /\ SessionBecomes(TRUE)

\* the debuggee stops
SessionStops == gdb.running /\ SessionBecomes(FALSE)

SessionEvent ==
    \E input \in SessionInputs :
        \E result \in (IF input = Enter THEN SessionAnswers(gdb) ELSE {"Ok"}),
           interrupted \in InterruptsFor(InputEvent("ConsoleEvent", input)) :
            Event(InputEvent("ConsoleEvent", input), result, interrupted, TRUE)
                /\ Counted(MaxSession)

InitSession == \E line \in {<<>>, StopToken} : Constructed(line)

NextSession == SessionEvent \/ SessionRuns \/ SessionStops

SpecSession == InitSession /\ [][NextSession]_vars

----------------------------------------------------------------------------
(* The out-of-band records alone, on every payload of Payloads, between    *)
(* calls of show_in_file_viewer.                                           *)

Lines == {<<"1", "1">>, <<"1">>, <<"1", "2">>, <<"0">>, <<"+", "1">>, <<"x">>, <<>>}

Frames ==
    {Frame(fullname, line, <<>>) :
        fullname \in {<<>>, <<NotConst("/a.c")>>} \cup {<<Const(p)>> : p \in Paths},
        line \in {<<>>, <<NotConst(<<"1">>)>>} \cup {<<Const(l)>> : l \in Lines}}
    \cup {Frame(<<Const("/a.c")>>, <<Const(<<"1", "1">>)>>, <<"main">>), ConstFrame}

Payloads ==
    {Results(<<>>, <<>>), Results(<<>>, <<"exited">>)}
    \cup {Results(<<f>>, <<>>) : f \in Frames}
    \cup {Results(<<Frame(<<Const("/a.c")>>, <<Const(<<"1", "1">>)>>, <<"main">>)>>,
                   <<"breakpoint-hit">>)}

AsyncKinds == {"Exec", "Status", "Notify"}
AsyncClasses == {"Stopped", "CmdParamChanged", "LibraryLoaded", "Thread", "Other"}

StreamData == <<"h", "i", "\n">>

\* whether the build panics on integer overflow: it matters where line is "0" only
ChecksFor(record) ==
    IF /\ record.kind = "Exec" /\ record.class = "Stopped"
       /\ record.results.frame # <<>>
       /\ record.results.frame[1].line \in {<<Const(<<"0">>)>>}
    THEN BOOLEAN ELSE {TRUE}

RecordNext(records) ==
    \E record \in records :
        \E overflow_checks \in ChecksFor(record) :
            AddOutOfBandRecord(record, overflow_checks) /\ Counted(MaxCalls)

StoppedRecords == {AsyncRecord("Exec", "Stopped", results) : results \in Payloads}

UnhandledRecords ==
    {AsyncRecord(kc[1], kc[2], Results(<<>>, <<"exited">>)) :
        kc \in (AsyncKinds \X AsyncClasses) \ {<<"Exec", "Stopped">>}}
    \cup {AsyncRecord(kc[1], kc[2],
                      Results(<<Frame(<<Const("/b.c")>>, <<Const(<<"1">>)>>, <<>>)>>, <<>>)) :
            kc \in {<<"Notify", "Stopped">>, <<"Exec", "Other">>}}

CountedShow ==
    \E path \in Paths, line \in {1, 10} : ShowInFileViewer(path, line) /\ Counted(MaxCalls)

InitRecords == Constructed(<<>>)

NextRecords ==
    \/ RecordNext(StoppedRecords)
    \/ RecordNext(UnhandledRecords)
    \/ RecordNext({StreamRecord(StreamData)})
    \/ CountedShow

SpecRecords == InitRecords /\ [][NextRecords]_vars

----------------------------------------------------------------------------
(* The whole Gui: up to MaxCalls calls of its public methods, on a prompt  *)
(* that is empty or holds a typed line.                                    *)

GuiEvents ==
    {InputEvent("ConsoleEvent", input) : input \in {Enter, CtrlC, KeyEvent("Char", "p")}}
    \cup {InputEvent("PseudoTerminalEvent", input) :
            input \in {KeyEvent("Char", "x"), KeyEvent("PageUp", "")}}
    \cup {InputEvent("SourcePagerEvent", input) : input \in PagerKeys}
    \cup {Quit}

GuiChunks == {<<>>, <<65>>, <<195>>, <<169>>}

GuiRecords ==
    {StreamRecord(StreamData), StreamRecord(<<"4", "2">>)}
    \cup UnhandledRecords
    \cup {AsyncRecord(kc[1], kc[2], results) :
            kc \in {<<"Exec", "Stopped">>, <<"Notify", "Stopped">>},
            results \in {Results(<<>>, <<"exited">>),
                         Results(<<Frame(<<Const("/a.c")>>, <<Const(<<"1", "1">>)>>,
                                         <<"main">>)>>, <<"breakpoint-hit">>),
                         Results(<<Frame(<<Const("/b.c")>>, <<Const(<<"0">>)>>, <<>>)>>,
                                 <<>>)}}

Init == \E line \in {<<>>, <<"!", "s", "t", "o">>} : Constructed(line)

Next ==
    \/ EventNext(GuiEvents, MaxCalls)
    \/ RecordNext(GuiRecords)
    \/ \E input \in GuiChunks : AddPtyInput(input) /\ Counted(MaxCalls)
    \/ CountedShow
    \/ AddDebugMessage(<<"o", "k">>) /\ Counted(MaxCalls)

Spec == Init /\ [][Next]_vars

----------------------------------------------------------------------------
(* The whole Gui on every input of the Console: up to MaxCalls calls, with *)
(* a few records of each kind.                                             *)

AllEvents ==
    GuiEvents \cup {InputEvent("ConsoleEvent", input) : input \in ConsoleInputs}

FewRecords ==
    {StreamRecord(StreamData),
     AsyncRecord("Notify", "Stopped", Results(<<>>, <<"exited">>)),
     AsyncRecord("Exec", "Stopped",
                 Results(<<Frame(<<Const("/a.c")>>, <<Const(<<"1", "1">>)>>, <<"main">>)>>,
                         <<"breakpoint-hit">>))}

NextCalls ==
    \/ EventNext(AllEvents, MaxCalls)
    \/ RecordNext(FewRecords)
    \/ \E input \in {<<65>>, <<195>>} : AddPtyInput(input) /\ Counted(MaxCalls)
    \/ ShowInFileViewer("/b.c", 1) /\ Counted(MaxCalls)
    \/ AddDebugMessage(<<"o", "k">>) /\ Counted(MaxCalls)

SpecCalls == InitConsole /\ [][NextCalls]_vars

----------------------------------------------------------------------------
(* Properties of the pty view, under SpecPty.                              *)

\* the pty view after one call of add_byte_input with all of bytes, from a new view
FedWhole(bytes) == add_byte_input(NewPseudoTerminal, bytes)

\* every call so far passed exactly one byte
FedByteWise == pty_calls # <<>> /\ \A i \in 1..Len(pty_calls) : Len(pty_calls[i]) = 1

\* bytes is one well-formed character of two or more bytes
IsMultiByteChar(bytes) ==
    /\ Len(bytes) >= 2
    /\ Utf8CharWidth(bytes[1]) = Len(bytes)
    /\ CharAt(bytes, 1, Len(bytes))

\* bytes is the beginning of a multi-byte character, short of its last byte at least
IsCharHead(bytes) ==
    /\ bytes # <<>>
    /\ Len(bytes) < Utf8CharWidth(bytes[1])
    /\ Len(bytes) >= 2 => SecondByteOk(bytes[1], bytes[2])
    /\ \A k \in 3..Len(bytes) : IsCont(bytes[k])

\* C1: fed one byte per call, the display holds the text that one call with all the
\* bytes displays, and it is the decoding of a prefix of the bytes
C1_ByteWiseEqualsWhole ==
    LET fed == Flatten(pty_calls)
    IN  FedByteWise =>
            /\ process_pty.display = FedWhole(fed).display
            /\ \E k \in 0..Len(fed) :
                    /\ from_utf8(SubSeq(fed, 1, k)).ok
                    /\ from_utf8(SubSeq(fed, 1, k)).string = process_pty.display

\* C2: the head of a multi-byte character alone displays nothing and is kept
\* pending; followed by the rest of the character in the next call, the display is
\* that of the whole character fed in one call and nothing is left pending
C2_SplitCharDecodesAsWhole ==
    /\ (Len(pty_calls) = 1 /\ IsCharHead(pty_calls[1]))
            => /\ process_pty.display = <<>>
               /\ process_pty.input_buffer = pty_calls[1]
    /\ (/\ Len(pty_calls) = 2
        /\ pty_calls[1] # <<>> /\ pty_calls[2] # <<>>
        /\ IsMultiByteChar(pty_calls[1] \o pty_calls[2]))
            => /\ process_pty.display = FedWhole(pty_calls[1] \o pty_calls[2]).display
               /\ Len(process_pty.display) = 1
               /\ process_pty.input_buffer = <<>>

\* a four byte character, fed as a head of two bytes and then the rest, is displayed
C2_Witness ==
    /\ Len(pty_calls) = 2
    /\ Len(pty_calls[1]) = 2 /\ Len(pty_calls[2]) = 2
    /\ IsMultiByteChar(pty_calls[1] \o pty_calls[2])
    /\ Len(process_pty.display) = 1
    /\ process_pty.input_buffer = <<>>

\* C3: the pending buffer is empty or the head of one incomplete character, and it
\* is empty after a call whose decoding succeeded
C3_PendingIsCharHead ==
    /\ process_pty.input_buffer = <<>> \/ IsCharHead(process_pty.input_buffer)
    /\ (last.op = "add_pty_input" /\ last.ret = "Ok") => process_pty.input_buffer = <<>>

\* the bytes of one char of a String (char::encode_utf8)
EncodeChar(cp) ==
    IF cp < 128 THEN <<cp>>
    ELSE IF cp < 2048 THEN <<192 + (cp \div 64), 128 + (cp % 64)>>
    ELSE IF cp < 65536
    THEN <<224 + (cp \div 4096), 128 + ((cp \div 64) % 64), 128 + (cp % 64)>>
    ELSE <<240 + (cp \div 262144), 128 + ((cp \div 4096) % 64),
           128 + ((cp \div 64) % 64), 128 + (cp % 64)>>

\* the bytes of a String (String::as_bytes)
AsBytes(string) == Flatten([i \in 1..Len(string) |-> EncodeChar(string[i])])

\* C16: the bytes of the text displayed, followed by the pending bytes, are the
\* bytes passed to add_byte_input so far, in their order; a key written to the
\* debuggee changes neither the display nor the pending buffer
C16_BytesAreConserved ==
    [][/\ AsBytes(process_pty'.display) \o process_pty'.input_buffer
              = Flatten(pty_calls')
       /\ last'.op = "event" =>
              /\ process_pty'.display = process_pty.display
              /\ process_pty'.input_buffer = process_pty.input_buffer
              /\ pty_calls' = pty_calls]_vars

\* a two byte character is displayed, a key was written to the debuggee, and the head
\* of another character is pending
C16_Witness ==
    /\ process_pty.display = <<233>>
    /\ process_pty.pty # <<>>
    /\ process_pty.input_buffer = <<226, 130>>
    /\ Len(pty_calls) = 3

\* s from index i on is well-formed characters and then, at most, the head of one
RECURSIVE IsValidPrefixFrom(_, _)
IsValidPrefixFrom(s, i) ==
    IF i > Len(s) THEN TRUE
    ELSE LET w == Utf8CharWidth(s[i]) IN
         IF CharAt(s, i, w) THEN IsValidPrefixFrom(s, i + w)
         ELSE IsCharHead(SubSeq(s, i, Len(s)))

\* bytes can be continued to well-formed text
IsValidPrefix(bytes) == IsValidPrefixFrom(bytes, 1)

\* C17: once the pending bytes cannot be continued to well-formed text, every call
\* of add_byte_input fails to decode, displays nothing and appends its bytes to the
\* pending ones, which still cannot be continued; and whenever all bytes fed so far
\* are well-formed text, nothing is pending and the display is their decoding
C17_UndecodableStalls ==
    [][last'.op = "add_pty_input" =>
        LET input == pty_calls'[Len(pty_calls')]
            fed == Flatten(pty_calls')
        IN  /\ ~IsValidPrefix(process_pty.input_buffer) =>
                  /\ last'.ret = "Err"
                  /\ process_pty'.display = process_pty.display
                  /\ process_pty'.input_buffer = process_pty.input_buffer \o input
                  /\ ~IsValidPrefix(process_pty'.input_buffer)
            /\ from_utf8(fed).ok =>
                  /\ process_pty'.input_buffer = <<>>
                  /\ process_pty'.display = from_utf8(fed).string]_vars

\* after a first chunk that cannot be continued, a chunk of well-formed text has been
\* fed and is pending behind it, with nothing displayed
C17_Witness ==
    /\ Len(pty_calls) = 2
    /\ ~IsValidPrefix(pty_calls[1])
    /\ pty_calls[2] # <<>> /\ from_utf8(pty_calls[2]).ok
    /\ process_pty.display = <<>>
    /\ process_pty.input_buffer = pty_calls[1] \o pty_calls[2]

----------------------------------------------------------------------------
(* Properties of the Pager adapter, under SpecPager.                       *)

\* the requested path is that of the loaded file
IsLoaded(path) == file_viewer.content # <<>> /\ file_viewer.content[1].path = path

\* the content of the Pager with the file at path loaded
ContentOf(path) == <<[path |-> path, lines |-> FileLines[path]]>>

\* C4, as claimed: a call of show loads the storage if and only if no file is loaded
\* or the path differs from the loaded one
C4_LoadsIffPathDiffers ==
    [][\A path \in Paths, line \in ShowLines :
        ShowInFileViewer(path, line) => (last'.loaded <=> ~IsLoaded(path))]_vars

\* C4, amended: a call of show loads the storage if and only if no file is loaded or
\* the path differs from the loaded one, and the file opens; two calls in a row with
\* the same path load at most once
C4_LoadsIffPathDiffersAndOpens ==
    [][\A path \in Paths, line \in ShowLines :
        ShowInFileViewer(path, line) =>
            /\ last'.loaded <=> (~IsLoaded(path) /\ path \in DOMAIN FileLines)
            /\ last'.loaded => file_viewer'.content = ContentOf(path)
            /\ ~last'.loaded => file_viewer'.content = file_viewer.content
            /\ (last.op = "show_in_file_viewer" /\ last.path = path)
                    => ~(last.loaded /\ last'.loaded)]_vars

\* a show of the path that is loaded already has succeeded without loading
C4_Witness ==
    /\ last.op = "show_in_file_viewer"
    /\ last.ret = "Ok"
    /\ ~last.loaded
    /\ IsLoaded(last.path)

\* C5, as claimed: a show of a line the file does not have returns LineDoesNotExist
\* and leaves the Pager as it was
C5_MissingLineChangesNothing ==
    [][\A path \in DOMAIN FileLines, line \in ShowLines :
        (line >= FileLines[path] /\ ShowInFileViewer(path, line)) =>
            /\ last'.ret = "LineDoesNotExist"
            /\ file_viewer' = file_viewer]_vars

\* C5, amended: a show of a line the file does not have returns LineDoesNotExist; it
\* leaves the Pager as it was if the path is the loaded one, and else leaves the
\* file at the path loaded in place of what was loaded before
C5_MissingLineKeepsLoadedPath ==
    [][\A path \in DOMAIN FileLines, line \in ShowLines :
        (line >= FileLines[path] /\ ShowInFileViewer(path, line)) =>
            /\ last'.ret = "LineDoesNotExist"
            /\ last'.line = line
            /\ IF IsLoaded(path)
               THEN file_viewer' = file_viewer
               ELSE file_viewer'.content = ContentOf(path)]_vars

\* a show of a missing line of the loaded file has returned LineDoesNotExist
C5_Witness ==
    /\ last.op = "show_in_file_viewer"
    /\ last.ret = "LineDoesNotExist"
    /\ ~last.loaded
    /\ IsLoaded(last.path)
    /\ last.line >= FileLines[last.path]

\* C18: a show that has to load a file that does not open returns CouldNotOpenFile
\* and leaves the Pager, file and viewport, as it was; a show that has to load a file
\* that opens leaves that file loaded whether or not it has the line; a show of the
\* loaded path loads nothing; and nothing but a show changes the loaded file
C18_FailedOpenKeepsLoadedFile ==
    [][IF last'.op = "show_in_file_viewer"
       THEN LET path == last'.path
            IN  CASE IsLoaded(path) ->
                        /\ ~last'.loaded
                        /\ file_viewer'.content = file_viewer.content
                  [] path \in DOMAIN FileLines ->
                        /\ last'.loaded
                        /\ last'.ret \in {"Ok", "LineDoesNotExist"}
                        /\ file_viewer'.content = ContentOf(path)
                  [] OTHER ->
                        /\ ~last'.loaded
                        /\ last'.ret = "CouldNotOpenFile"
                        /\ file_viewer' = file_viewer
       ELSE file_viewer'.content = file_viewer.content]_vars

\* a show of a path that does not open, for a line the loaded file has, has returned
\* CouldNotOpenFile and left the loaded file at the line it was at
C18_Witness ==
    /\ last.op = "show_in_file_viewer"
    /\ last.ret = "CouldNotOpenFile"
    /\ last.line = 1
    /\ file_viewer = [content |-> ContentOf("/a.c"), current_line |-> 10]

----------------------------------------------------------------------------
(* Properties of the Console, under SpecConsole.                           *)

\* Gui::event with a ConsoleEvent of input
ConsoleKey(input, result, interrupted) ==
    Event(InputEvent("ConsoleEvent", input), result, interrupted, TRUE)

\* the line add_message appends for msg
MessageLine(msg) == [pre |-> " -=- ", body |-> msg, post |-> "\n"]

\* how the line logged for a result of execute begins
ResultHead(result) ==
    CASE result = "Ok" -> "Result: "
      [] result = "Quit" -> "quit"
      [] result = "Busy" -> "GDB is running!"

\* C6: a submitted "!stop" calls interrupt once, does not call execute and logs
\* nothing; any other submitted line calls execute once, does not call interrupt, and
\* appends the echo "(gdb) <line>" and then the line of the outcome of execute
C6_SubmitInterruptsOrExecutes ==
    [][\A result \in ExecuteResults, interrupted \in BOOLEAN :
        ConsoleKey(Enter, result, interrupted) =>
            LET line == console.prompt_line.line
                log == console.text_area.log
                log2 == console'.text_area.log
            IN  IF line = StopToken
                THEN /\ gdb'.interrupts = gdb.interrupts + 1
                     /\ gdb'.executes = gdb.executes
                     /\ log2 = log
                ELSE /\ gdb'.executes = gdb.executes + 1
                     /\ gdb'.interrupts = gdb.interrupts
                     /\ Len(log2) = Len(log) + 2
                     /\ SubSeq(log2, 1, Len(log)) = log
                     /\ log2[Len(log) + 1] = MessageLine(Text("(gdb) ", line, <<>>, <<>>))
                     /\ log2[Len(log) + 2].pre = " -=- "
                     /\ log2[Len(log) + 2].post = "\n"
                     /\ log2[Len(log) + 2].body.head = ResultHead(result)
                     /\ log2[Len(log) + 2].body.text = <<>>]_vars

\* "!stop" has been submitted and interrupted, and then a line that holds the token
\* and more has been submitted and run
C6_Witness ==
    /\ last.op = "event" /\ last.input = Enter
    /\ last.text # StopToken
    /\ \E i \in 1..Len(last.text) - 4 : SubSeq(last.text, i, i + 4) = StopToken
    /\ gdb.executes = 1
    /\ Len(console.text_area.log) = 2
    /\ console.text_area.log[1].body.text = last.text

\* C7: the interrupt key on an empty prompt calls interrupt and leaves the prompt as it
\* is; on a prompt that is not empty it empties the prompt and does not call
\* interrupt; neither calls execute nor changes the log
C7_InterruptKey ==
    [][\A result \in ExecuteResults, interrupted \in BOOLEAN :
        ConsoleKey(CtrlC, result, interrupted) =>
            /\ IF console.prompt_line.line = <<>>
               THEN /\ gdb'.interrupts = gdb.interrupts + 1
                    /\ console'.prompt_line = console.prompt_line
               ELSE /\ gdb'.interrupts = gdb.interrupts
                    /\ console'.prompt_line.line = <<>>
            /\ gdb'.executes = gdb.executes
            /\ console'.text_area = console.text_area]_vars

\* the interrupt key has emptied a prompt that held a line, without an interrupt
C7_Witness ==
    /\ last.op = "event" /\ last.target = "ConsoleEvent" /\ last.input = CtrlC
    /\ last.text # <<>>
    /\ console.prompt_line.line = <<>>
    /\ gdb.interrupts = 0

\* C13: PageUp and PageDown given to the Console scroll the log a page backwards and
\* forwards whatever the prompt holds, and change neither the prompt, nor the content
\* of the log, nor call the session
C13_PageKeysScrollOnly ==
    [][(/\ last'.op = "event" /\ last'.target = "ConsoleEvent"
        /\ (IsKey(last'.input, "PageUp") \/ IsKey(last'.input, "PageDown"))) =>
            /\ console'.prompt_line = console.prompt_line
            /\ console'.text_area.log = console.text_area.log
            /\ console'.text_area.scroll =
                  IF IsKey(last'.input, "PageUp")
                  THEN Min(console.text_area.scroll + PageHeight,
                           Len(console.text_area.log))
                  ELSE Max(console.text_area.scroll - PageHeight, 0)
            /\ UNCHANGED <<gdb, fault, process_pty, file_viewer>>]_vars

\* PageUp has scrolled the log back while the prompt held a typed line
C13_Witness ==
    /\ last.op = "event" /\ last.target = "ConsoleEvent"
    /\ IsKey(last.input, "PageUp")
    /\ console.prompt_line.line # <<>>
    /\ console.text_area.scroll > 0

----------------------------------------------------------------------------
(* Properties of the record handler, under SpecRecords and Spec.           *)

DigitChars == <<"0", "1", "2", "3", "4", "5", "6", "7", "8", "9">>

\* the decimal text of n
RECURSIVE DecimalText(_)
DecimalText(n) ==
    IF n < 10 THEN <<DigitChars[n + 1]>>
    ELSE Append(DecimalText(n \div 10), DigitChars[(n % 10) + 1])

\* the frame of results gives the file at path and the line number n
FrameAt(results, path, n) ==
    /\ results.frame # <<>>
    /\ results.frame[1].kind = "Tuple"
    /\ results.frame[1].fullname = <<Const(path)>>
    /\ results.frame[1].line = <<Const(DecimalText(n))>>

\* the last operation was add_out_of_band_record with an AsyncRecord
WasAsyncRecord(record) ==
    record.op = "add_out_of_band_record" /\ record.ret = "AsyncRecord"

\* C8: an (Exec, Stopped) record whose frame gives an openable file and a line number
\* n >= 1 of it appends the line "stopped: <payload>" to the console log and leaves
\* the Pager on that file at line n - 1
C8_StoppedShowsFrame ==
    [][(WasAsyncRecord(last') /\ last'.kind = "Exec" /\ last'.class = "Stopped") =>
        \A path \in DOMAIN FileLines, n \in 1..12 :
            (FrameAt(last'.results, path, n) /\ n <= FileLines[path]) =>
                /\ console'.text_area.log =
                      Append(console.text_area.log,
                             MessageLine(Text("stopped: ", <<>>, <<>>, <<last'.results>>)))
                /\ console'.prompt_line = console.prompt_line
                /\ file_viewer'.content = ContentOf(path)
                /\ file_viewer'.current_line = n - 1
                /\ fault' = ""]_vars

\* the record with fullname "/a.c", line "11" and fields nothing reads has left the
\* Pager on /a.c at line 10
C8_Witness ==
    /\ last.op = "add_out_of_band_record"
    /\ last.kind = "Exec" /\ last.class = "Stopped"
    /\ fault = ""
    /\ file_viewer = [content |-> ContentOf("/a.c"), current_line |-> 10]
    /\ LET log == console.text_area.log
       IN  /\ log # <<>>
           /\ log[Len(log)].body.head = "stopped: "
           /\ log[Len(log)].body.payload[1].reason # <<>>
           /\ log[Len(log)].body.payload[1].frame[1].func # <<>>

\* C9: an AsyncRecord that is not (Exec, Stopped) appends one line "unhandled
\* async_record" with its kind, class and payload to the console log, and changes
\* nothing else
C9_UnhandledOnlyLogs ==
    [][(WasAsyncRecord(last') /\ ~(last'.kind = "Exec" /\ last'.class = "Stopped")) =>
        /\ console'.text_area.log =
              Append(console.text_area.log,
                     MessageLine(Text("unhandled async_record: ", <<>>,
                                      <<last'.kind, last'.class>>, <<last'.results>>)))
        /\ console'.text_area.scroll = console.text_area.scroll
        /\ console'.prompt_line = console.prompt_line
        /\ UNCHANGED <<file_viewer, process_pty, gdb, fault>>]_vars

\* a Stopped record that is not an Exec record, with a frame, has been logged as
\* unhandled while a file was loaded
C9_Witness ==
    /\ last.op = "add_out_of_band_record"
    /\ last.ret = "AsyncRecord"
    /\ last.kind # "Exec" /\ last.class = "Stopped"
    /\ file_viewer.content # <<>>
    /\ LET log == console.text_area.log
       IN  /\ log # <<>>
           /\ log[Len(log)].body.head = "unhandled async_record: "
           /\ log[Len(log)].body.payload[1].frame # <<>>

\* C10: Gui::event gives a ConsoleEvent to the Console alone, writes a
\* PseudoTerminalEvent to the pty alone, and on a SourcePagerEvent at most scrolls the
\* Pager, and that on PageUp and PageDown only
C10_EventReachesItsTargetOnly ==
    [][last'.op = "event" =>
        CASE last'.target = "ConsoleEvent" ->
                UNCHANGED <<process_pty, file_viewer>>
          [] last'.target = "PseudoTerminalEvent" ->
                /\ UNCHANGED <<console, file_viewer, gdb>>
                /\ process_pty'.display = process_pty.display
                /\ process_pty'.input_buffer = process_pty.input_buffer
                /\ \/ process_pty'.pty = process_pty.pty
                   \/ /\ last'.input.key = "Char"
                      /\ process_pty'.pty = Append(process_pty.pty, last'.input.c)
                /\ (last'.input.key = "Char" /\ fault' = "")
                        => process_pty'.pty # process_pty.pty
          [] last'.target = "SourcePagerEvent" ->
                /\ UNCHANGED <<console, process_pty, gdb, fault>>
                /\ file_viewer'.content = file_viewer.content
                /\ (~IsKey(last'.input, "PageUp") /\ ~IsKey(last'.input, "PageDown"))
                        => file_viewer' = file_viewer
          [] OTHER -> TRUE]_vars

\* a SourcePagerEvent that is neither PageUp nor PageDown has left a loaded file
\* where it was
C10_Witness ==
    /\ last.op = "event"
    /\ last.target = "SourcePagerEvent"
    /\ last.input = KeyEvent("Char", "x")
    /\ file_viewer.content # <<>>
    /\ fault = ""

\* the fields of results are there and are constants: frame.fullname and frame.line
HasFrameFields(results) ==
    /\ results.frame # <<>>
    /\ results.frame[1].kind = "Tuple"
    /\ results.frame[1].fullname # <<>>
    /\ results.frame[1].fullname[1].kind = "Const"
    /\ results.frame[1].line # <<>>
    /\ results.frame[1].line[1].kind = "Const"

\* the frame of results names a file that opens and, as an unsigned integer n >= 1,
\* a line n - 1 that the file has
NamesShownLine(results) ==
    /\ HasFrameFields(results)
    /\ LET path == results.frame[1].fullname[1].str
           parsed == ParseUsize(results.frame[1].line[1].str)
       IN  /\ parsed.ok
           /\ parsed.value >= 1
           /\ path \in DOMAIN FileLines
           /\ parsed.value - 1 < FileLines[path]

\* C15: an (Exec, Stopped) record is handled without a fault if and only if its frame
\* names a file that opens and a line number n >= 1 with line n - 1 in the file; the
\* line "stopped: <payload>" is in the log in either case, and an Err of show is a
\* fault
C15_StoppedFaultsUnlessWellFormed ==
    [][(WasAsyncRecord(last') /\ last'.kind = "Exec" /\ last'.class = "Stopped") =>
        /\ (fault' = "") <=> NamesShownLine(last'.results)
        /\ console'.text_area.log =
              Append(console.text_area.log,
                     MessageLine(Text("stopped: ", <<>>, <<>>, <<last'.results>>)))
        /\ (/\ HasFrameFields(last'.results)
            /\ ParseUsize(last'.results.frame[1].line[1].str).ok
            /\ ParseUsize(last'.results.frame[1].line[1].str).value >= 1
            /\ ~NamesShownLine(last'.results))
                => fault' = "gdb surely would never lie to us!"]_vars

\* the record with line "0" has ended in a fault in the build that checks overflow,
\* after its "stopped" line was logged
C15_Witness ==
    /\ last.op = "add_out_of_band_record"
    /\ last.kind = "Exec" /\ last.class = "Stopped"
    /\ HasFrameFields(last.results)
    /\ last.results.frame[1].line[1].str = <<"0">>
    /\ fault = "attempt to subtract with overflow"
    /\ LET log == console.text_area.log
       IN  log # <<>> /\ log[Len(log)].body = Text("stopped: ", <<>>, <<>>, <<last.results>>)

----------------------------------------------------------------------------
(* Properties of the Console with the session behind it, under             *)
(* SpecSession.                                                            *)

\* C11: while the session is busy, a submitted line other than "!stop" is answered
\* Busy and logged as "GDB is running!", the session stays as it was but for the one
\* call, and the Console goes on; a submitted "!stop" and Ctrl-C on an empty prompt
\* call interrupt and not execute; no other event calls the session
C11_BusyIsLoggedAndInterruptDelivered ==
    [][(last'.op = "event" /\ gdb.running) =>
        LET line == console.prompt_line.line
            log == console.text_area.log
        IN  CASE last'.input = Enter /\ line # StopToken ->
                    /\ console'.text_area.log =
                          log \o <<MessageLine(Text("(gdb) ", line, <<>>, <<>>)),
                                   MessageLine(Text("GDB is running!", <<>>, <<>>, <<>>))>>
                    /\ gdb' = [gdb EXCEPT !.executes = @ + 1]
                    /\ fault' = ""
              [] \/ last'.input = Enter /\ line = StopToken
                 \/ last'.input = CtrlC /\ line = <<>> ->
                    /\ gdb' = [gdb EXCEPT !.interrupts = @ + 1]
                    /\ console'.text_area = console.text_area
              [] OTHER ->
                    /\ gdb' = gdb
                    /\ fault' = ""]_vars

\* after a line was answered Busy, Ctrl-C on the empty prompt has interrupted the
\* session that is still busy
C11_Witness ==
    /\ last.op = "event" /\ last.input = CtrlC /\ last.text = <<>>
    /\ gdb.running
    /\ gdb.interrupts = 1
    /\ gdb.executes = 2
    /\ fault = ""
    /\ LET log == console.text_area.log
       IN  log # <<>> /\ log[Len(log)].body.head = "GDB is running!"

----------------------------------------------------------------------------
(* Properties of the whole Gui, under Spec.                                *)

\* C12: Quit given to Gui::event ends the program with a fault at once: no widget
\* changes, the session is not called, and no operation follows a fault
C12_QuitFaults ==
    [][/\ fault = ""
       /\ (last'.op = "event" /\ last'.target = "Quit") =>
            /\ fault' = "quit should have been caught in main"
            /\ UNCHANGED <<console, process_pty, file_viewer, gdb>>]_vars

\* Quit has arrived after an operation that wrote to the console log
C12_Witness ==
    /\ last.op = "event" /\ last.target = "Quit"
    /\ fault # ""
    /\ console.text_area.log # <<>>

\* the chunk write!(text_area, "{}", data) leaves in the log
RawChunk(data) == [pre |-> "", body |-> Text("", data, <<>>, <<>>), post |-> ""]

\* the chunk is one line " -=- <msg>\n" of add_message
IsMessageLine(chunk) == chunk.pre = " -=- " /\ chunk.post = "\n"

\* C14: every operation leaves the console log as it was and appends its output to
\* it: a StreamRecord its data as it is, leaving the Pager alone, an AsyncRecord and
\* add_debug_message one message line, a submitted command its two message lines,
\* and every other operation nothing
C14_LogIsAppendOnly ==
    [][LET log == console.text_area.log
           log2 == console'.text_area.log
           added == Len(log2) - Len(log)
       IN  /\ IsPrefix(log, log2)
           /\ CASE last'.op = "add_out_of_band_record" /\ last'.ret = "StreamRecord" ->
                        /\ log2 = Append(log, RawChunk(last'.text))
                        /\ file_viewer' = file_viewer
                [] last'.op = "add_out_of_band_record" /\ last'.ret = "AsyncRecord" ->
                        /\ added = 1
                        /\ IsMessageLine(log2[Len(log2)])
                        /\ log2[Len(log2)].body.payload = <<last'.results>>
                [] last'.op = "add_debug_message" ->
                        /\ added = 1
                        /\ IsMessageLine(log2[Len(log2)])
                        /\ log2[Len(log2)].body.head = "Debug: "
                [] /\ last'.op = "event" /\ last'.target = "ConsoleEvent"
                   /\ last'.input = Enter /\ last'.text # StopToken ->
                        /\ added = 2
                        /\ log2[Len(log) + 1] =
                              MessageLine(Text("(gdb) ", last'.text, <<>>, <<>>))
                        /\ IsMessageLine(log2[Len(log) + 2])
                [] OTHER -> added = 0]_vars

\* a StreamRecord without a newline has been appended as it is after a message line,
\* while a file was loaded
C14_Witness ==
    /\ last.op = "add_out_of_band_record" /\ last.ret = "StreamRecord"
    /\ Len(console.text_area.log) = 2
    /\ IsMessageLine(console.text_area.log[1])
    /\ console.text_area.log[2] = RawChunk(<<"4", "2">>)
    /\ file_viewer.content # <<>>

----------------------------------------------------------------------------
(* Properties of the calls of the session, under SpecCalls.                *)

\* C19: after Enter given to the Console the prompt is empty, whatever line it held
\* and whatever execute answered; and execute is called by a submitted line other
\* than "!stop" alone, once, and by no other operation
C19_SubmitEmptiesPromptAndAloneExecutes ==
    [][/\ (last'.op = "event" /\ last'.target = "ConsoleEvent" /\ last'.input = Enter) =>
            /\ console'.prompt_line.line = <<>>
            /\ console'.prompt_line.cursor = 0
       /\ IF /\ last'.op = "event" /\ last'.target = "ConsoleEvent"
             /\ last'.input = Enter /\ last'.text # StopToken
          THEN gdb'.executes = gdb.executes + 1
          ELSE gdb'.executes = gdb.executes]_vars

\* "!stop" has been submitted and then the empty line, which was run
C19_Witness ==
    /\ last.op = "event" /\ last.target = "ConsoleEvent" /\ last.input = Enter
    /\ last.text = <<>>
    /\ gdb.interrupts = 1
    /\ gdb.executes = 1
    /\ console.prompt_line.line = <<>>
    /\ console.prompt_line.history # <<>>
    /\ console.prompt_line.history[1] = StopToken

====
